---- MODULE Spec2Model ----
(***************************************************************************)
(* Model of galaxy_importer/loaders/doc_string.py: DocStringLoader.load    *)
(* and the doc-string transform _transform_doc_strings with its two        *)
(* closures dict_to_named_list and handle_nested_tables.                   *)
(*                                                                         *)
(* JSON values are records [tag, s, items]:                                *)
(*   null/bool/num/str : scalar, content in s                              *)
(*   list              : items is the sequence of elements                 *)
(*   dict              : items is the sequence of entries in insertion     *)
(*                       order, each entry a "kv" record whose s is the    *)
(*                       key and whose items is <<value>>                  *)
(* String values of the model are one character long, so iterating a str   *)
(* yields the str itself.  Lists of the model hold mappings only.          *)
(***************************************************************************)
EXTENDS Integers, Sequences, FiniteSets, TLC

VARIABLES
    pc,            \* position of the call under study
    data,          \* the payload object handed to _transform_doc_strings
    orig,          \* the payload as it was before the first call
    first,         \* the payload as it was after the first call
    warned,        \* number of warnings logged by each call so far
    table,         \* argument of a direct dict_to_named_list call
    rows,          \* what that call returned
    tool,          \* load: does shutil.which find ansible-doc
    plugin_types,  \* load: self.plugin_types (<<>> stands for None)
    idx,           \* load: position of the for loop in plugin_types
    found_plugins, \* load: keys of the listing, in the listing's order
    plugins,       \* load: sorted(found_plugins.keys())
    fetched,       \* load: what _run_ansible_doc returned
    docs,          \* load: the result mapping being built
    calls          \* load: the external calls made so far, in order

vars == <<pc, data, orig, first, warned, table, rows, tool, plugin_types,
          idx, found_plugins, plugins, fetched, docs, calls>>

normVars == <<data, orig, first, warned, table, rows>>
loadVars == <<tool, plugin_types, idx, found_plugins, plugins, fetched, docs, calls>>

----------------------------------------------------------------------------
(* Bounds *)

\* levels of nested tables below the top-level table
MaxDepth == 2
\* number of plugin types the loader is constructed with
MaxTypes == 2
\* number of plugin identifiers the listing can name
MaxIds == 2

----------------------------------------------------------------------------
(* JSON values *)

Null == [tag |-> "null", s |-> "", items |-> <<>>]
Bool(b) == [tag |-> "bool", s |-> b, items |-> <<>>]
Num(n) == [tag |-> "num", s |-> n, items |-> <<>>]
Str(x) == [tag |-> "str", s |-> x, items |-> <<>>]
List(xs) == [tag |-> "list", s |-> "", items |-> xs]
KV(k, v) == [tag |-> "kv", s |-> k, items |-> <<v>>]
Dict(kvs) == [tag |-> "dict", s |-> "", items |-> kvs]

\* isinstance(v, dict)
IsDict(v) == v.tag = "dict"

\* bool(v)
Truthy(v) ==
    CASE v.tag = "null" -> FALSE
      [] v.tag = "bool" -> v.s = "true"
      [] v.tag = "num" -> v.s # "0"
      [] v.tag = "str" -> v.s # ""
      [] OTHER -> v.items # <<>>

\* k in d
HasKey(d, k) == d.tag = "dict" /\ \E i \in DOMAIN d.items : d.items[i].s = k
KeyIndex(d, k) == CHOOSE i \in DOMAIN d.items : d.items[i].s = k
\* d[k]
Get(d, k) == d.items[KeyIndex(d, k)].items[1]
\* d.get(k, default)
GetOr(d, k, default) == IF HasKey(d, k) THEN Get(d, k) ELSE default
\* d[k] = v : an existing key keeps its position, a new key goes last
SetItem(d, k, v) ==
    IF HasKey(d, k)
    THEN [d EXCEPT !.items[KeyIndex(d, k)] = KV(k, v)]
    ELSE [d EXCEPT !.items = Append(@, KV(k, v))]
Keys(d) == [i \in DOMAIN d.items |-> d.items[i].s]
Values(d) == [i \in DOMAIN d.items |-> d.items[i].items[1]]

\* copy.deepcopy: a structurally equal value (values carry no identity here)
deepcopy(v) == v

RECURSIVE DictUpdate(_, _)
\* the ** spread of a dict display: entries written in order, later write wins
DictUpdate(d, kvs) ==
    IF kvs = <<>> THEN d
    ELSE DictUpdate(SetItem(d, Head(kvs).s, Head(kvs).items[1]), Tail(kvs))

\* mutant: the name written after the spread, {**deepcopy(value), "name": key}
NamedRecord_NameLast(key, value) ==
    SetItem(DictUpdate(Dict(<<>>), deepcopy(value).items), "name", key)

\* {"name": key, **deepcopy(value)}
NamedRecord(key, value) ==
    DictUpdate(Dict(<<KV("name", key)>>), deepcopy(value).items)

\* iter(v) succeeds
Iterable(v) == v.tag \in {"dict", "list", "str"}
\* what `for key in v` yields
Iter(v) ==
    CASE v.tag = "dict" -> [i \in DOMAIN v.items |-> Str(v.items[i].s)]
      [] v.tag = "list" -> v.items
      [] v.tag = "str" -> IF v.s = "" THEN <<>> ELSE <<v>>
      [] OTHER -> <<>>
\* c[key] followed by ** succeeds: c[key] exists and is a mapping
Spreadable(c, key) ==
    c.tag = "dict" /\ key.tag = "str" /\ HasKey(c, key.s) /\ IsDict(Get(c, key.s))

\* the element of a one-element set; Only({F(x) : x \in {e}}) is F of the
\* value of e, with e evaluated once
Only(S) == CHOOSE y \in S : TRUE

\* Result of a call: what it returned (or the object it was mutating),
\* the warnings it logged, and whether an exception left it.
Outcome(v, w, r) == [val |-> v, warn |-> w, raised |-> r]

\* dict_to_named_list: the comprehension of the try block raises TypeError as
\* soon as one dict_of_dict[key] cannot be spread; the handler logs a warning
\* and builds the list again, keeping the keys that are themselves dicts.
dict_to_named_list(dict_of_dict) ==
    LET keys == Iter(dict_of_dict)
        tryOK == /\ Iterable(dict_of_dict)
                 /\ \A i \in DOMAIN keys : Spreadable(dict_of_dict, keys[i])
        kept == SelectSeq(keys, IsDict)
    IN  IF tryOK
        THEN Outcome([i \in DOMAIN keys |->
                        NamedRecord(keys[i], Get(dict_of_dict, keys[i].s))],
                     0, FALSE)
        ELSE \* a dict key can index neither a list nor a dict: TypeError again
             Outcome(<<>>, 1, ~Iterable(dict_of_dict) \/ kept # <<>>)

\* line 178: table_key in obj and isinstance(obj[table_key], dict)
is_nested_table(obj, table_key) ==
    HasKey(obj, table_key) /\ IsDict(Get(obj, table_key))

RECURSIVE handle_nested_tables(_, _)
RECURSIVE handle_rows(_, _)

\* mutant: the table converted, its rows not visited (no lines 180-181)
handle_nested_tables_shallow(obj, table_key) ==
    IF is_nested_table(obj, table_key)
    THEN Only({IF r.raised
               THEN Outcome(obj, r.warn, TRUE)
               ELSE Outcome(SetItem(obj, table_key, List(r.val)), r.warn, FALSE) :
               r \in {dict_to_named_list(Get(obj, table_key))}})
    ELSE Outcome(obj, 0, FALSE)

\* what is left of a conversion once its rows have been visited: the list
\* stored under key in owner, the warnings added up
rows_visited(owner, key, r, h) ==
    Outcome(SetItem(owner, key, List(h.val)), r.warn + h.warn, h.raised)

\* the table under key in owner converted and its rows visited with
\* table_key; val is owner afterwards
convert_site(owner, key, table_key) ==
    Only({IF r.raised
          THEN Outcome(owner, r.warn, TRUE)
          ELSE Only({rows_visited(owner, key, r, h) :
                     h \in {handle_rows(r.val, table_key)}}) :
          r \in {dict_to_named_list(Get(owner, key))}})

\* handle_nested_tables mutates obj in place; val is obj afterwards
handle_nested_tables(obj, table_key) ==
    IF is_nested_table(obj, table_key)
    THEN convert_site(obj, table_key, table_key)
    ELSE Outcome(obj, 0, FALSE)

\* for row in rows: handle_nested_tables(row, table_key)
handle_rows(rws, table_key) ==
    IF rws = <<>> THEN Outcome(<<>>, 0, FALSE)
    ELSE Only({IF a.raised
               THEN Outcome(<<a.val>> \o Tail(rws), a.warn, TRUE)
               ELSE Only({Outcome(<<a.val>> \o b.val, a.warn + b.warn, b.raised) :
                          b \in {handle_rows(Tail(rws), table_key)}}) :
               a \in {handle_nested_tables(Head(rws), table_key)}})

\* lines 184-187: the doc.options site; val is doc afterwards
transform_options(doc) ==
    IF IsDict(GetOr(doc, "options", Null))
    THEN convert_site(doc, "options", "suboptions")
    ELSE Outcome(doc, 0, FALSE)

\* mutant: the test of line 190 without the isinstance check
is_return_table_truthy(ret) == Truthy(ret)

\* line 190: ret and isinstance(ret, dict)
is_return_table(ret) == Truthy(ret) /\ IsDict(ret)

\* mutant: the rows of return visited with the table key of the options site
transform_return_suboptions(dat) ==
    IF is_return_table(GetOr(dat, "return", Null))
    THEN convert_site(dat, "return", "suboptions")
    ELSE Outcome(dat, 0, FALSE)

\* lines 189-193: the return site; val is data afterwards
transform_return(dat) ==
    IF is_return_table(GetOr(dat, "return", Null))
    THEN convert_site(dat, "return", "contains")
    ELSE Outcome(dat, 0, FALSE)

\* _transform_doc_strings(data): doc.get raises AttributeError when doc is
\* not a mapping; the default {} of data.get("doc", {}) is not stored in data
_transform_doc_strings(dat) ==
    IF ~IsDict(GetOr(dat, "doc", Dict(<<>>)))
    THEN Outcome(dat, 0, TRUE)
    ELSE IF ~HasKey(dat, "doc")
    THEN transform_return(dat)
    ELSE Only({IF o.raised
               THEN Outcome(SetItem(dat, "doc", o.val), o.warn, TRUE)
               ELSE Only({Outcome(t.val, o.warn + t.warn, t.raised) :
                          t \in {transform_return(SetItem(dat, "doc", o.val))}}) :
               o \in {transform_options(Get(dat, "doc"))}})

----------------------------------------------------------------------------
(* Inputs: JSON values as ansible-doc --json can emit them *)

\* marks a key that the payload does not have
Absent == [tag |-> "absent", s |-> "", items |-> <<>>]

SimpleRec == Dict(<<KV("description", Str("d"))>>)
SimpleTable == Dict(<<KV("a", SimpleRec)>>)
\* a list of rows that themselves hold tables under both nested-table names
ListOfRows ==
    List(<<Dict(<<KV("name", Str("r")), KV("suboptions", SimpleTable),
                  KV("contains", SimpleTable)>>)>>)

\* values that are not mappings
NonMaps == {Null, Str("x"), ListOfRows}
TopNonMaps == NonMaps \cup {Bool("true"), Num("0"), List(<<>>)}

OtherKey(table_key) == IF table_key = "suboptions" THEN "contains" ELSE "suboptions"

RECURSIVE RecSet(_, _)
RECURSIVE TableSet(_, _)

\* the mappings a table of nesting level n can hold as values
RecSet(n, table_key) ==
    {SimpleRec,
     Dict(<<KV("description", Str("d")), KV("name", Str("y"))>>),
     Dict(<<KV("description", Str("d")), KV(OtherKey(table_key), SimpleTable)>>)}
    \cup {Dict(<<KV("description", Str("d")), KV(table_key, v)>>) :
            v \in NonMaps \cup (IF n = 0 THEN {Dict(<<>>)}
                                ELSE TableSet(n - 1, table_key))}

\* tables with up to n levels of nested tables below them; some hold values
\* that are not mappings
TableSet(n, table_key) ==
    {Dict(<<>>), Dict(<<KV("a", Str("x"))>>),
     Dict(<<KV("a", SimpleRec), KV("b", Null)>>)}
    \cup {Dict(<<KV("a", r)>>) : r \in RecSet(n, table_key)}
    \cup {Dict(<<KV("b", r), KV("a", SimpleRec)>>) :
            r \in RecSet(n, table_key) \cup {Str("x")}}

\* a table with MaxDepth levels of well-formed nested tables below it
RECURSIVE DeepTable(_, _)
DeepTable(n, table_key) ==
    IF n = 0 THEN Dict(<<KV("b", SimpleRec), KV("a", SimpleRec)>>)
    ELSE Dict(<<KV("b", Dict(<<KV("description", Str("d")),
                               KV(table_key, DeepTable(n - 1, table_key))>>)),
                KV("a", SimpleRec)>>)

DocWith(options) ==
    Dict(<<KV("module", Str("m"))>>
         \o (IF options = Absent THEN <<>> ELSE <<KV("options", options)>>))

DocSet ==
    TopNonMaps
    \cup {DocWith(o) : o \in {Absent} \cup TopNonMaps \cup TableSet(MaxDepth, "suboptions")}
    \cup {Dict(<<KV("suboptions", SimpleTable), KV("options", o)>>) :
            o \in {SimpleTable, DeepTable(MaxDepth, "suboptions"),
                   Dict(<<KV("a", Dict(<<KV("description", Str("d")),
                                         KV("contains", SimpleTable)>>))>>)}}
DocSmall == {Absent, Null, DocWith(Absent), DocWith(DeepTable(MaxDepth, "suboptions"))}

RetSet == TopNonMaps \cup TableSet(MaxDepth, "contains")
RetSmall == {Absent, Null, Dict(<<>>), Dict(<<KV("a", Str("x"))>>),
             DeepTable(MaxDepth, "contains"),
             Dict(<<KV("a", Dict(<<KV("description", Str("d")),
                                   KV("suboptions", SimpleTable)>>))>>)}

\* keys of the payload that the transform has no business with
Unrelated ==
    <<KV("examples", Str("e")),
      KV("metadata", Dict(<<KV("options", SimpleTable), KV("contains", SimpleTable)>>))>>

PayloadOf(d, r) ==
    Dict((IF d = Absent THEN <<>> ELSE <<KV("doc", d)>>)
         \o Unrelated
         \o (IF r = Absent THEN <<>> ELSE <<KV("return", r)>>))

Payloads ==
    {PayloadOf(d, r) : d \in {Absent} \cup DocSet, r \in RetSmall}
    \cup {PayloadOf(d, r) : d \in DocSmall, r \in {Absent} \cup RetSet}

Tables == TableSet(MaxDepth, "suboptions") \cup TableSet(MaxDepth, "contains")

----------------------------------------------------------------------------
(* The transform applied to one payload, twice; dict_to_named_list applied *)
(* to one table.                                                           *)

LoadIdle ==
    /\ tool = FALSE /\ plugin_types = <<>> /\ idx = 0 /\ found_plugins = <<>>
    /\ plugins = <<>> /\ fetched = <<>> /\ docs = <<>> /\ calls = <<>>

Init ==
    /\ LoadIdle
    /\ \/ pc = "transform" /\ data \in Payloads /\ table = Null
       \/ pc = "convert" /\ table \in Tables /\ data = Null
    /\ orig = data /\ first = data /\ warned = <<>> /\ rows = Null

\* data = _transform_doc_strings(data)
Transform ==
    /\ pc = "transform"
    /\ \E r \in {_transform_doc_strings(data)} :
           /\ data' = r.val
           /\ first' = r.val
           /\ warned' = Append(warned, r.warn)
           /\ pc' = IF r.raised THEN "raised" ELSE "transformed"
    /\ UNCHANGED <<orig, table, rows>>
    /\ UNCHANGED loadVars

\* the transform applied to its own result
TransformAgain ==
    /\ pc = "transformed"
    /\ \E r \in {_transform_doc_strings(data)} :
           /\ data' = r.val
           /\ warned' = Append(warned, r.warn)
           /\ pc' = IF r.raised THEN "raised_again" ELSE "transformed_again"
    /\ UNCHANGED <<orig, first, table, rows>>
    /\ UNCHANGED loadVars

\* rows = dict_to_named_list(table)
DictToNamedList ==
    /\ pc = "convert"
    /\ \E r \in {dict_to_named_list(table)} :
           /\ rows' = List(r.val)
           /\ warned' = Append(warned, r.warn)
           /\ pc' = IF r.raised THEN "convert_raised" ELSE "converted"
    /\ UNCHANGED <<data, orig, first, table>>
    /\ UNCHANGED loadVars

Next == Transform \/ TransformAgain \/ DictToNamedList

Spec == Init /\ [][Next]_vars

----------------------------------------------------------------------------
(* Properties of the transform *)

\* every value of the mapping t is a mapping
AllMappings(t) == IsDict(t) /\ \A i \in DOMAIN t.items : IsDict(Values(t)[i])

\* every field of the mapping v is a field of the record r, with v's content
KeepsFields(v, r) ==
    \A j \in DOMAIN v.items :
        HasKey(r, Keys(v)[j]) /\ Get(r, Keys(v)[j]) = Values(v)[j]

Called == pc \in {"transformed", "raised"}

\* C1: the normalizer never raises: for every payload mapping, whatever JSON
\* values its inspected fields hold, the call returns a payload.
NormalizerNeverRaises == Called => pc = "transformed"

\* the entries of t whose value is a mapping, in order
MappingEntries(t) == SelectSeq(t.items, LAMBDA kv : IsDict(kv.items[1]))

\* C2: given a mapping with at least one value that is not a mapping,
\* dict_to_named_list does not raise, logs one warning and returns one named
\* record for every key whose value is a mapping, none for the other keys.
DropsOnlyMalformedEntries ==
    (pc \in {"converted", "convert_raised"} /\ ~AllMappings(table)) =>
        /\ pc = "converted"
        /\ warned = <<1>>
        /\ Len(rows.items) = Len(MappingEntries(table))
        /\ \A i \in DOMAIN rows.items :
              /\ i \in DOMAIN MappingEntries(table)
              /\ KeepsFields(MappingEntries(table)[i].items[1], rows.items[i])

\* no value of the table holds a table of its own
NoNestedTables(t) ==
    \A i \in DOMAIN t.items :
        \A j \in DOMAIN Values(t)[i].items : ~IsDict(Values(Values(t)[i])[j])

\* C3 as stated: for a mapping of mappings without nested tables the list has
\* one record per key in key-iteration order, each record's name is the
\* original key and the record holds every field of the original value.
NameIsAlwaysTheKey ==
    (pc \in {"converted", "convert_raised"} /\ AllMappings(table)
        /\ NoNestedTables(table)) =>
        /\ pc = "converted"
        /\ Len(rows.items) = Len(table.items)
        /\ \A i \in DOMAIN rows.items :
              /\ Get(rows.items[i], "name") = Str(Keys(table)[i])
              /\ KeepsFields(Values(table)[i], rows.items[i])

\* the name a record gets: the value's own name field wins over the key
ExpectedName(key, value) ==
    IF HasKey(value, "name") THEN Get(value, "name") ELSE Str(key)

\* C3 amended: for a mapping of mappings the list has one record per key in
\* key-iteration order, each record holds every field of the original value
\* with its content, and its name is the original key unless the value has a
\* name field of its own, which is then kept.
NamedListOfMappings ==
    (pc \in {"converted", "convert_raised"} /\ AllMappings(table)) =>
        /\ pc = "converted"
        /\ warned = <<0>>
        /\ Len(rows.items) = Len(table.items)
        /\ \A i \in DOMAIN rows.items :
              /\ HasKey(rows.items[i], "name")
              /\ Get(rows.items[i], "name")
                    = ExpectedName(Keys(table)[i], Values(table)[i])
              /\ KeepsFields(Values(table)[i], rows.items[i])

\* two keys, not in sorted order, one value with a name of its own
NamedListWitness ==
    /\ pc = "converted"
    /\ Keys(table) = <<"b", "a">>
    /\ AllMappings(table)
    /\ HasKey(Values(table)[1], "name")
    /\ Len(rows.items) = 2
    /\ Get(rows.items[2], "name") = Str("a")

RECURSIVE WellFormedTree(_, _)
\* t is a mapping of mappings, and so is every table_key field below it
WellFormedTree(t, table_key) ==
    /\ AllMappings(t)
    /\ \A i \in DOMAIN t.items :
          HasKey(Values(t)[i], table_key)
              => WellFormedTree(Get(Values(t)[i], table_key), table_key)

RECURSIVE ConvertedTree(_, _, _, _)
\* out is the list of named records of the table t, level by level; with
\* strict the name of a record is its key, whatever the value holds
ConvertedTree(t, out, table_key, strict) ==
    /\ out.tag = "list"
    /\ Len(out.items) = Len(t.items)
    /\ \A i \in DOMAIN out.items :
          LET v == Values(t)[i]
              r == out.items[i]
          IN  /\ IsDict(r)
              /\ HasKey(r, "name")
              /\ Get(r, "name") = IF strict THEN Str(Keys(t)[i])
                                  ELSE ExpectedName(Keys(t)[i], v)
              /\ HasKey(v, table_key) =>
                    /\ HasKey(r, table_key)
                    /\ ConvertedTree(Get(v, table_key), Get(r, table_key),
                                     table_key, strict)

RECURSIVE NoMappingLeft(_, _)
\* no table_key field reachable through the rows of the list is a mapping
NoMappingLeft(out, table_key) ==
    \A i \in DOMAIN out.items :
        HasKey(out.items[i], table_key) =>
            /\ Get(out.items[i], table_key).tag = "list"
            /\ NoMappingLeft(Get(out.items[i], table_key), table_key)

OptionsIn == Get(Get(orig, "doc"), "options")
OptionsOut == Get(Get(data, "doc"), "options")
HasOptionsTree ==
    /\ HasKey(orig, "doc")
    /\ HasKey(Get(orig, "doc"), "options")
    /\ WellFormedTree(OptionsIn, "suboptions")
HasReturnTree == HasKey(orig, "return") /\ WellFormedTree(Get(orig, "return"), "contains")

\* C4 as stated: with doc.options a mapping of mappings whose suboptions are
\* mappings of mappings at every depth, every table becomes a list of named
\* records, each named by its key, and no suboptions below is still a
\* mapping; the same for the return table and its contains tables.
EveryTableNamedByKey ==
    (Called /\ HasOptionsTree) =>
        /\ pc = "transformed"
        /\ ConvertedTree(OptionsIn, OptionsOut, "suboptions", TRUE)
        /\ NoMappingLeft(OptionsOut, "suboptions")
        /\ HasReturnTree =>
              /\ ConvertedTree(Get(orig, "return"), Get(data, "return"),
                               "contains", TRUE)
              /\ NoMappingLeft(Get(data, "return"), "contains")

\* C4 amended: as above, but a record is named by its key only when its
\* value has no name field of its own (the value's name is kept otherwise),
\* and the return table is converted only when it is not empty: an empty
\* return mapping stays an empty mapping.
EveryTableConverted ==
    (Called /\ HasOptionsTree) =>
        /\ pc = "transformed"
        /\ ConvertedTree(OptionsIn, OptionsOut, "suboptions", FALSE)
        /\ NoMappingLeft(OptionsOut, "suboptions")
        /\ HasReturnTree =>
              IF Get(orig, "return").items = <<>>
              THEN Get(data, "return") = Dict(<<>>)
              ELSE /\ ConvertedTree(Get(orig, "return"), Get(data, "return"),
                                    "contains", FALSE)
                   /\ NoMappingLeft(Get(data, "return"), "contains")

\* the row reached by taking the first row of the list under table_key, n times
RECURSIVE FirstRowAt(_, _, _)
FirstRowAt(r, table_key, n) ==
    IF n = 0 THEN r ELSE FirstRowAt(Get(r, table_key).items[1], table_key, n - 1)

\* three levels of options and three levels of return values, all converted
ThreeLevelWitness ==
    /\ pc = "transformed"
    /\ HasOptionsTree /\ HasReturnTree
    /\ OptionsIn = DeepTable(2, "suboptions")
    /\ Get(orig, "return") = DeepTable(2, "contains")
    /\ [i \in 1..2 |->
            Get(Get(FirstRowAt(OptionsOut.items[1], "suboptions", 1),
                    "suboptions").items[i], "name")]
          = <<Str("b"), Str("a")>>
    /\ Len(Get(FirstRowAt(Get(data, "return").items[1], "contains", 1), "contains").items) = 2

\* the return field is one the transform must not touch
ReturnNotATable ==
    \/ ~HasKey(orig, "return")
    \/ ~IsDict(Get(orig, "return"))
    \/ ~Truthy(Get(orig, "return"))

\* C5: with return absent, null, empty or not a mapping the normalizer does
\* not raise and leaves return as it was: absent stays absent, a present
\* value is equal to its input value.
ReturnLeftUntouched ==
    (Called /\ ReturnNotATable) =>
        /\ pc = "transformed"
        /\ HasKey(data, "return") = HasKey(orig, "return")
        /\ HasKey(orig, "return") => Get(data, "return") = Get(orig, "return")

RECURSIVE FrameRows(_, _, _)
\* row i of the list out comes from entry i of the table t: it has the
\* fields of that entry's value and name, nothing else, and every field but
\* a table under table_key has the value's content; such a table obeys the
\* same rule one level down
FrameRows(t, out, table_key) ==
    /\ out.tag = "list"
    /\ \A i \in DOMAIN out.items :
          /\ i \in DOMAIN t.items
          /\ LET v == Values(t)[i]
                 r == out.items[i]
             IN  /\ IsDict(v) /\ IsDict(r)
                 /\ \A j \in DOMAIN r.items :
                       Keys(r)[j] = "name" \/ HasKey(v, Keys(r)[j])
                 /\ \A j \in DOMAIN v.items :
                       LET f == Keys(v)[j]
                       IN  /\ HasKey(r, f)
                           /\ IF f = table_key /\ IsDict(Get(v, f))
                              THEN FrameRows(Get(v, f), Get(r, f), table_key)
                              ELSE Get(r, f) = Get(v, f)

\* the mappings a and b have the same keys in the same order, and the same
\* value under every key but k
SameBut(a, b, k) ==
    /\ Keys(a) = Keys(b)
    /\ \A j \in DOMAIN a.items : Keys(a)[j] # k => Values(a)[j] = Values(b)[j]

\* C8: the normalizer changes only doc.options and return, and inside the
\* produced records only suboptions (options tree) and contains (return
\* tree): every other payload key, every other key of doc and every other
\* field of every produced record keeps its value; a contains mapping in an
\* option record, a suboptions mapping in a return record and a suboptions
\* mapping directly under doc stay mappings.
OnlyTheTwoSitesChange ==
    /\ pc = "raised" => data = orig
    /\ pc = "transformed" =>
        /\ Keys(data) = Keys(orig)
        /\ \A j \in DOMAIN orig.items :
              Keys(orig)[j] \notin {"doc", "return"}
                  => Values(data)[j] = Values(orig)[j]
        /\ HasKey(orig, "doc") =>
              LET din == Get(orig, "doc")
                  dout == Get(data, "doc")
              IN  IF IsDict(GetOr(din, "options", Null))
                  THEN /\ SameBut(din, dout, "options")
                       /\ FrameRows(Get(din, "options"), Get(dout, "options"),
                                    "suboptions")
                  ELSE dout = din
        /\ HasKey(orig, "return") =>
              IF ReturnNotATable
              THEN Get(data, "return") = Get(orig, "return")
              ELSE FrameRows(Get(orig, "return"), Get(data, "return"), "contains")

\* both sites converted, with a table of the other site's name in a record
\* of each and a suboptions table directly under doc, all three still mappings
OtherTablesWitness ==
    /\ pc = "transformed"
    /\ HasKey(data, "doc") /\ HasKey(data, "return")
    /\ GetOr(Get(data, "doc"), "suboptions", Null) = SimpleTable
    /\ GetOr(Get(data, "doc"), "options", Null).tag = "list"
    /\ Get(data, "return").tag = "list"
    /\ Len(OptionsOut.items) = 1 /\ Len(Get(data, "return").items) = 1
    /\ GetOr(OptionsOut.items[1], "contains", Null) = SimpleTable
    /\ GetOr(Get(data, "return").items[1], "suboptions", Null) = SimpleTable

\* C9: the normalizer is idempotent: applied to its own result it returns,
\* leaves the payload as it is and logs no warning.
Idempotent ==
    pc \in {"transformed_again", "raised_again"} =>
        /\ pc = "transformed_again"
        /\ data = first
        /\ warned[2] = 0

\* a payload the first call changed, with a warning, and the second did not
IdempotentWitness ==
    /\ pc = "transformed_again"
    /\ first # orig
    /\ data = first
    /\ warned = <<1, 0>>
    /\ HasOptionsTree
    /\ Len(OptionsOut.items) = 2
    /\ Get(OptionsOut.items[1], "suboptions").tag = "list"

----------------------------------------------------------------------------
(* DocStringLoader.load *)

\* plugin type names; plugin identifiers are numbered in the order of their
\* names, so that sorting the names is sorting the numbers
TypeNames == <<"module", "filter", "lookup", "inventory", "become">>
Types == {TypeNames[i] : i \in 1..MaxTypes}
Ids == 1..MaxIds
\* returncode of the ansible-doc process
ExitCodes == {0, 1}

\* constants.ANSIBLE_DOC_SUPPORTED_TYPES
SupportedTypes == SubSeq(TypeNames, 1, MaxTypes)

\* sequences without repetition over the set S
DistinctSeqs(S) ==
    UNION {{q \in [1..n -> S] : \A i, j \in 1..n : i # j => q[i] # q[j]} :
           n \in 0..Cardinality(S)}

\* what the loader is constructed with: None, one plugin type, or all of them
\* in an order that is not the order of the supported types
PluginTypeChoices ==
    {<<>>, [i \in 1..MaxTypes |-> TypeNames[MaxTypes + 1 - i]]}
    \cup {<<t>> : t \in Types}

\* mutant: the keys passed on in the order of the listing
sorted_not(q) == q

RECURSIVE sorted(_)
\* sorted(...): ascending order
sorted(q) ==
    IF q = <<>> THEN <<>>
    ELSE LET m == CHOOSE i \in DOMAIN q : \A j \in DOMAIN q : q[i] <= q[j]
         IN  <<q[m]>> \o sorted(SubSeq(q, 1, m - 1) \o SubSeq(q, m + 1, Len(q)))

\* what ansible-doc --json prints for plugin id of type plugin_type: a payload
\* with both tables nested, one with a malformed return entry, one whose doc
\* is null, one without doc
PluginDoc(plugin_type, id) ==
    CASE id = 1 -> PayloadOf(DocWith(DeepTable(1, "suboptions")),
                             DeepTable(1, "contains"))
      [] id = 2 /\ plugin_type = "module" ->
             PayloadOf(DocWith(SimpleTable), Dict(<<KV("a", Str("x"))>>))
      [] id = 2 /\ plugin_type # "module" -> PayloadOf(Null, Absent)
      [] OTHER -> PayloadOf(Absent, Null)

\* plugin_types = self.plugin_types or constants.ANSIBLE_DOC_SUPPORTED_TYPES
EffectiveTypes == IF plugin_types = <<>> THEN SupportedTypes ELSE plugin_types

Call(op, plugin_type, rc, ids) ==
    [op |-> op, type |-> plugin_type, rc |-> rc, ids |-> ids]

NormIdle ==
    /\ data = Null /\ orig = Null /\ first = Null /\ warned = <<>>
    /\ table = Null /\ rows = Null

LoadInit ==
    /\ NormIdle
    /\ pc = "load"
    /\ tool \in BOOLEAN
    /\ plugin_types \in PluginTypeChoices
    /\ idx = 0 /\ found_plugins = <<>> /\ plugins = <<>> /\ fetched = <<>>
    /\ docs = <<>> /\ calls = <<>>

\* the for loop moves on to the next plugin type, or load returns docs
NextType(i) == IF i < Len(EffectiveTypes) THEN "list" ELSE "done"

\* lines 46-53: without ansible-doc load returns the empty docs
Which ==
    /\ pc = "load"
    /\ IF tool THEN pc' = NextType(0) /\ idx' = 1
               ELSE pc' = "done" /\ idx' = idx
    /\ UNCHANGED <<found_plugins, plugins, fetched, docs, calls, tool, plugin_types>>
    /\ UNCHANGED normVars

\* mutant: no `if not plugins: continue`
RunAnsibleDocList_NoSkip ==
    /\ pc = "list"
    /\ \E rc \in ExitCodes, listing \in DistinctSeqs(Ids) :
          LET found == IF rc # 0 THEN <<>> ELSE listing
          IN  /\ found_plugins' = found
              /\ plugins' = sorted(found)
              /\ calls' = Append(calls, Call("list", EffectiveTypes[idx], rc, found))
              /\ pc' = "fetch"
              /\ idx' = idx
    /\ UNCHANGED <<fetched, docs, tool, plugin_types>>
    /\ UNCHANGED normVars

\* lines 56-60: _run_ansible_doc_list returns {} on a non-zero exit, else the
\* listing; an empty plugins list skips to the next plugin type
RunAnsibleDocList ==
    /\ pc = "list"
    /\ \E rc \in ExitCodes, listing \in DistinctSeqs(Ids) :
          LET found == IF rc # 0 THEN <<>> ELSE listing
          IN  /\ found_plugins' = found
              /\ plugins' = sorted(found)
              /\ calls' = Append(calls, Call("list", EffectiveTypes[idx], rc, found))
              /\ IF sorted(found) = <<>>
                 THEN pc' = NextType(idx) /\ idx' = idx + 1
                 ELSE pc' = "fetch" /\ idx' = idx
    /\ UNCHANGED <<fetched, docs, tool, plugin_types>>
    /\ UNCHANGED normVars

\* line 62: _run_ansible_doc returns {} on a non-zero exit, else the
\* documentation of the plugins it was asked for
RunAnsibleDoc ==
    /\ pc = "fetch"
    /\ \E rc \in ExitCodes :
          /\ fetched' = IF rc # 0 THEN <<>>
                        ELSE [i \in DOMAIN plugins |->
                                [id |-> plugins[i],
                                 doc |-> PluginDoc(EffectiveTypes[idx], plugins[i])]]
          /\ calls' = Append(calls, Call("fetch", EffectiveTypes[idx], rc, plugins))
    /\ pc' = "process"
    /\ UNCHANGED <<found_plugins, plugins, docs, idx, tool, plugin_types>>
    /\ UNCHANGED normVars

\* _process_doc_strings: every payload transformed, in order
_process_doc_strings(doc_strings) ==
    [i \in DOMAIN doc_strings |->
        [id |-> doc_strings[i].id,
         out |-> _transform_doc_strings(doc_strings[i].doc)]]

\* lines 63-64: an exception of the transform leaves load; otherwise the
\* processed mapping is stored under the plugin type
ProcessDocStrings ==
    /\ pc = "process"
    /\ \E p \in {_process_doc_strings(fetched)}, t \in {EffectiveTypes[idx]} :
           /\ calls' = Append(calls, Call("process", t, 0,
                                          [i \in DOMAIN fetched |-> fetched[i].id]))
           /\ IF \E i \in DOMAIN p : p[i].out.raised
              THEN pc' = "raised" /\ docs' = docs /\ idx' = idx
              ELSE /\ docs' = (t :> [i \in DOMAIN p |->
                                        [id |-> p[i].id, doc |-> p[i].out.val]])
                               @@ docs
                   /\ pc' = NextType(idx)
                   /\ idx' = idx + 1
    /\ UNCHANGED <<found_plugins, plugins, fetched, tool, plugin_types>>
    /\ UNCHANGED normVars

LoadNext == Which \/ RunAnsibleDocList \/ RunAnsibleDoc \/ ProcessDocStrings

LoadSpec == LoadInit /\ [][LoadNext]_vars

----------------------------------------------------------------------------
(* Properties of load *)

CallsOf(op) == SelectSeq(calls, LAMBDA c : c.op = op)
\* the list call of plugin type t returned a non-empty mapping
ListedSome(t) ==
    \E i \in DOMAIN calls :
        calls[i].op = "list" /\ calls[i].type = t /\ calls[i].ids # <<>>
FetchFailed(t) ==
    \E i \in DOMAIN calls :
        calls[i].op = "fetch" /\ calls[i].type = t /\ calls[i].rc # 0

\* C6: in the output of load a plugin type is a key exactly when its list
\* call returned a non-empty mapping; a type whose list call returned empty
\* or failed is absent, a type whose fetch call failed is present with an
\* empty mapping.
OutputKeysAreListedTypes ==
    pc = "done" =>
        \A i \in DOMAIN TypeNames :
            LET t == TypeNames[i]
            IN  /\ (t \in DOMAIN docs) <=> ListedSome(t)
                /\ (t \in DOMAIN docs /\ FetchFailed(t)) => docs[t] = <<>>

\* load returned; one type is absent after a failed list call, another is
\* present with an empty mapping after a failed fetch call
OutputKeysWitness ==
    /\ pc = "done"
    /\ Len(EffectiveTypes) = 2
    /\ \E i \in DOMAIN calls :
          calls[i].op = "list" /\ calls[i].rc # 0 /\ calls[i].type \notin DOMAIN docs
    /\ \E t \in DOMAIN docs : FetchFailed(t) /\ docs[t] = <<>>

\* the entry of plugin type t as its own list and fetch calls determine it
ExpectedEntry(t, c) ==
    IF c.rc # 0 THEN <<>>
    ELSE [i \in DOMAIN c.ids |->
            [id |-> c.ids[i],
             doc |-> _transform_doc_strings(PluginDoc(t, c.ids[i])).val]]

\* C7: a non-zero exit of a list or fetch call is not fatal and does not
\* abort the other plugin types: load still runs the list call of every
\* later type and reaches its return, and the entry of every other type is
\* what that type's own calls make it.
FailedCallNotFatal ==
    (\E i \in DOMAIN calls : calls[i].rc # 0) =>
        /\ pc # "raised"
        /\ pc = "done" =>
              /\ Len(CallsOf("list")) = Len(EffectiveTypes)
              /\ \A i \in DOMAIN calls :
                    calls[i].op = "fetch" =>
                        /\ calls[i].type \in DOMAIN docs
                        /\ docs[calls[i].type] = ExpectedEntry(calls[i].type, calls[i])

IsSorted(q) == \A i, j \in DOMAIN q : i < j => q[i] < q[j]
Range(q) == {q[i] : i \in DOMAIN q}

\* C10: plugin types are handled one after another in the given order; for
\* each type the list call comes first, the fetch call is made at most once,
\* only after a non-empty listing and with exactly its identifiers in sorted
\* order; normalization follows the fetch call and precedes the next list
\* call; without the tool no call is made and the result is empty.
CallsInOrder ==
    /\ ~tool => calls = <<>> /\ docs = <<>>
    /\ LET lists == CallsOf("list")
       IN  /\ Len(lists) <= Len(EffectiveTypes)
           /\ \A i \in DOMAIN lists : lists[i].type = EffectiveTypes[i]
    /\ \A i, j \in DOMAIN calls :
          (i # j /\ calls[i].op = "fetch" /\ calls[j].op = "fetch")
              => calls[i].type # calls[j].type
    /\ \A i \in DOMAIN calls :
          /\ calls[i].op = "fetch" =>
                /\ i > 1
                /\ calls[i - 1].op = "list"
                /\ calls[i - 1].type = calls[i].type
                /\ calls[i - 1].rc = 0
                /\ calls[i - 1].ids # <<>>
                /\ IsSorted(calls[i].ids)
                /\ Len(calls[i].ids) = Len(calls[i - 1].ids)
                /\ Range(calls[i].ids) = Range(calls[i - 1].ids)
          /\ calls[i].op = "process" =>
                /\ i > 1
                /\ calls[i - 1].op = "fetch"
                /\ calls[i - 1].type = calls[i].type
          /\ (calls[i].op = "list" /\ i > 1) =>
                \/ calls[i - 1].op = "process"
                \/ calls[i - 1].op = "list" /\ calls[i - 1].ids = <<>>
    /\ pc = "done" =>
          \A i \in DOMAIN calls :
              \/ calls[i].op # "list"
              \/ calls[i].ids = <<>>
              \/ i < Len(calls) /\ calls[i + 1].op = "fetch"

\* two plugin types handled in the given order; the second is listed out
\* of order, fetched in sorted order and normalized before load returns
CallsInOrderWitness ==
    /\ pc = "done"
    /\ plugin_types = <<"filter", "module">>
    /\ Len(calls) = 6
    /\ calls[1] = Call("list", "filter", 0, <<1>>)
    /\ calls[2] = Call("fetch", "filter", 0, <<1>>)
    /\ calls[3].op = "process"
    /\ calls[4] = Call("list", "module", 0, <<2, 1>>)
    /\ calls[5] = Call("fetch", "module", 0, <<1, 2>>)
    /\ calls[6].op = "process"
    /\ Len(docs["module"]) = 2

====
